---- MODULE Spec2Model ----
(***************************************************************************)
(* Model of the rule-matching service: src/src/services/match.ts           *)
(* (buildCtx, evalConditions, the jurisdiction candidate cache and         *)
(* matchRules), the POST /v1/check handler (src/src/index.ts), the form    *)
(* schema (src/unnamed/part_003) and the seeding script that edits the     *)
(* rules table (src/dist/scripts/seed.js).                                 *)
(*                                                                         *)
(* Free text that the code normalises (state codes, city names, industry   *)
(* names) is a sequence of one-character strings, so that trim,            *)
(* toUpperCase and toLowerCase are computed character by character.        *)
(* Enumerated values that the code only compares ("beer", "off-premise")   *)
(* are plain strings.  A JSON value is a tuple tagged with its type.       *)
(***************************************************************************)
EXTENDS Integers, Sequences, FiniteSets, TLC

VARIABLES
    catalog,      \* the rules table: a set of rule records
    jurCache,     \* match.ts jurCache: cache key -> [rows, exp]
    clock,        \* Date.now(), in milliseconds
    req,          \* the /v1/check requests: request id -> request record
    fetchedFrom,  \* history: cache key -> [from: the table its rows were read from, by: the writer]
    conditions,   \* evaluator harness: the condition document under evaluation
    payload,      \* evaluator harness: the validated profile under evaluation
    level,        \* evaluator harness: the level of the rule carrying `conditions`
    evalPc,       \* evaluator harness: "input" | "evaluated" | "grouped"
    evalOut,      \* evaluator harness: what evalConditions returned
    evalGrouped   \* evaluator harness: what the filter-and-group step returned

vars == <<catalog, jurCache, clock, req, fetchedFrom,
          conditions, payload, level, evalPc, evalOut, evalGrouped>>
serverVars == <<catalog, jurCache, clock, req, fetchedFrom>>
evalVars == <<conditions, payload, level, evalPc, evalOut, evalGrouped>>

(***************************************************************************)
(* Strings                                                                 *)
(***************************************************************************)

\* UTF-16 code units of the characters the model uses (String.prototype.sort order).
CharCode ==
    (" " :> 32) @@ ("," :> 44) @@ ("|" :> 124) @@
    ("A" :> 65) @@ ("B" :> 66) @@ ("C" :> 67) @@ ("H" :> 72) @@ ("L" :> 76) @@
    ("N" :> 78) @@ ("O" :> 79) @@ ("Y" :> 89) @@
    ("a" :> 97) @@ ("b" :> 98) @@ ("c" :> 99) @@ ("h" :> 104) @@ ("l" :> 108) @@
    ("n" :> 110) @@ ("o" :> 111) @@ ("y" :> 121)

UpperOfChar ==
    ("a" :> "A") @@ ("b" :> "B") @@ ("c" :> "C") @@ ("h" :> "H") @@ ("l" :> "L") @@
    ("n" :> "N") @@ ("o" :> "O") @@ ("y" :> "Y")

LowerOfChar ==
    ("A" :> "a") @@ ("B" :> "b") @@ ("C" :> "c") @@ ("H" :> "h") @@ ("L" :> "l") @@
    ("N" :> "n") @@ ("O" :> "o") @@ ("Y" :> "y")

toUpperCase(s) ==
    [i \in DOMAIN s |-> IF s[i] \in DOMAIN UpperOfChar THEN UpperOfChar[s[i]] ELSE s[i]]

toLowerCase(s) ==
    [i \in DOMAIN s |-> IF s[i] \in DOMAIN LowerOfChar THEN LowerOfChar[s[i]] ELSE s[i]]

RECURSIVE trimStart(_)
trimStart(s) ==
    IF s # <<>> /\ Head(s) = " " THEN trimStart(Tail(s)) ELSE s

RECURSIVE trimEnd(_)
trimEnd(s) ==
    IF s # <<>> /\ s[Len(s)] = " " THEN trimEnd(SubSeq(s, 1, Len(s) - 1)) ELSE s

trim(s) ==
    trimEnd(trimStart(s))

\* The empty string, and SQL NULL / JavaScript null for a text value.
EmptyStr ==
    <<>>
NullStr ==
    <<"NULL">>

normalizeStr(s) ==
    trim(IF s = NullStr THEN EmptyStr ELSE s)
normState(s) ==
    toUpperCase(normalizeStr(s))
normCity(s) ==
    toLowerCase(normalizeStr(s))
lc(s) ==
    toLowerCase(normalizeStr(s))

\* a < b in the order of Array.prototype.sort without a comparator (code units).
RECURSIVE StrLess(_, _)
StrLess(a, b) ==
    IF a = <<>> THEN b # <<>>
    ELSE IF b = <<>> THEN FALSE
    ELSE IF CharCode[Head(a)] # CharCode[Head(b)] THEN CharCode[Head(a)] < CharCode[Head(b)]
    ELSE StrLess(Tail(a), Tail(b))

RECURSIVE InsertSorted(_, _)
InsertSorted(sorted, x) ==
    IF sorted = <<>> THEN <<x>>
    ELSE IF StrLess(x, Head(sorted)) THEN <<x>> \o sorted
    ELSE <<Head(sorted)>> \o InsertSorted(Tail(sorted), x)

RECURSIVE sort(_)
sort(arr) ==
    IF arr = <<>> THEN <<>> ELSE InsertSorted(sort(SubSeq(arr, 1, Len(arr) - 1)), arr[Len(arr)])

RECURSIVE join(_, _)
join(arr, sep) ==
    IF arr = <<>> THEN <<>>
    ELSE IF Len(arr) = 1 THEN arr[1]
    ELSE arr[1] \o <<sep>> \o join(Tail(arr), sep)

Range(seq) ==
    {seq[i] : i \in DOMAIN seq}

hasAny(a, b) ==
    IF a = <<>> \/ b = <<>> THEN FALSE
    ELSE \E i \in DOMAIN b : b[i] \in Range(a)

(***************************************************************************)
(* JSON values (the JSONB `conditions` column and its members)             *)
(***************************************************************************)

JNull ==
    <<"null">>
Undefined ==
    <<"undefined">>
JBool(b) ==
    <<"boolean", b>>
JNum(n) ==
    <<"number", n>>
JStr(s) ==
    <<"string", s>>
JArr(a) ==
    <<"array", a>>
JObj(o) ==
    <<"object", o>>
EmptyDoc ==
    JObj(<<>>)

\* !v
Falsy(v) ==
    \/ v[1] \in {"null", "undefined"}
    \/ v[1] = "boolean" /\ ~v[2]
    \/ v[1] = "number" /\ v[2] = 0
    \/ v[1] = "string" /\ v[2] = ""

\* Object.keys(v) of a truthy value.
ObjectKeys(v) ==
    CASE v[1] = "object" -> DOMAIN v[2]
      [] v[1] = "array" -> DOMAIN v[2]
      [] OTHER -> {}

\* v[k]: the member, or undefined.
Get(v, k) ==
    IF v[1] = "object" /\ k \in DOMAIN v[2] THEN v[2][k] ELSE Undefined

isNumber(v) ==
    v[1] = "number"
isBoolean(v) ==
    v[1] = "boolean"
\* Array.isArray(v) && v.length
isNonEmptyArray(v) ==
    v[1] = "array" /\ v[2] # <<>>

(***************************************************************************)
(* The form schema (src/lib/schema.ts) and the validated payload           *)
(***************************************************************************)

NY ==
    <<"N", "Y">>
CA ==
    <<"C", "A">>
OH ==
    <<"O", "H">>
States ==
    {NY, CA, OH}
RevenueBands ==
    {"<100k", "100k-1M", "1M-5M", ">=5M"}
LegalStructures ==
    {"LLC", "Corp", "S-Corp", "SoleProp", "Nonprofit"}
AlcoholTypes ==
    {"beer", "wine", "spirits"}
PayrollFreq ==
    {"weekly", "biweekly", "semimonthly", "monthly"}
DataVolumeBands ==
    {"<50k", "50k-100k", ">=100k"}
AlcoholSalesContext ==
    {"on-premise", "off-premise", "both"}
MinorsAges ==
    {"<16", "16-17"}
TippedPercentBand ==
    {"<20%", "20-50%", ">50%"}
NumLocations ==
    {"1", "2-4", "5+"}

\* An optional enumerated field that is not set (JavaScript undefined).
Undef ==
    "<undefined>"

\* A date "YYYY-MM-DD" is the tuple <<year, month, day>>; an optional date that is
\* not set, and the null that computeDueDate returns, is the empty tuple.
NoDate ==
    <<>>
DateFields ==
    {"businessStartDate", "firstEmployeeHireDate", "firstSaleDate", "firstPayrollDate",
     "leaseDate"}

\* The fields of the parsed form with the schema's defaults (.default(false),
\* .default([]), .optional()); the five required fields are filled by each body.
FormDefaults ==
    [ businessName |-> Undef, industry |-> NullStr, state |-> NullStr, city |-> NullStr,
      employeesTotal |-> -1, numLocations |-> Undef,
      multiState |-> FALSE, otherStates |-> <<>>,
      hasRemoteEmployees |-> FALSE, remoteEmployeeStates |-> <<>>,
      handlesFood |-> FALSE, sellsAlcohol |-> FALSE, hazardousMaterials |-> FALSE,
      commercialVehicles |-> FALSE, hasCDLDrivers |-> FALSE,
      acceptsCardPayments |-> FALSE, collectsCustomerData |-> FALSE,
      tippedWorkers |-> FALSE, tippedPercentBand |-> Undef,
      employsMinors |-> FALSE, minorsAges |-> <<>>, usesContractors1099 |-> FALSE,
      sellsTaxable |-> FALSE, salesStates |-> <<>>,
      revenueBand |-> Undef, legalStructure |-> Undef,
      onSitePrep |-> FALSE, seatingOnPrem |-> FALSE, meatDairy |-> FALSE,
      alcoholType |-> Undef, alcoholSalesContext |-> Undef,
      handlesPHI |-> FALSE, childrenUnder13 |-> FALSE, collectsFromCA |-> FALSE,
      collectsFromOtherStates |-> <<>>, dataVolumeBand |-> Undef,
      sellsOrSharesData |-> FALSE, usesBiometrics |-> FALSE,
      trucksOver10kInterstate |-> FALSE, usesForklifts |-> FALSE,
      publicFacingSite |-> FALSE, hasWebsiteOrApp |-> FALSE,
      payrollFrequency |-> Undef,
      businessStartDate |-> NoDate, firstEmployeeHireDate |-> NoDate,
      firstSaleDate |-> NoDate, firstPayrollDate |-> NoDate, leaseDate |-> NoDate ]

\* A request body: the fields it gives, the rest as the schema defaults them.
Form(given) ==
    given @@ FormDefaults

OptionalIn(v, enum) ==
    v = Undef \/ v \in enum

\* BusinessFormSchema.safeParse(body).success
SchemaValid(b) ==
    /\ b.businessName # Undef /\ b.businessName # ""
    /\ b.industry # NullStr /\ Len(b.industry) >= 1
    /\ b.state \in States
    /\ b.city # NullStr /\ Len(b.city) >= 1
    /\ b.employeesTotal >= 0
    /\ OptionalIn(b.numLocations, NumLocations)
    /\ Range(b.otherStates) \subseteq States
    /\ Range(b.remoteEmployeeStates) \subseteq States
    /\ OptionalIn(b.tippedPercentBand, TippedPercentBand)
    /\ Range(b.minorsAges) \subseteq MinorsAges
    /\ Range(b.salesStates) \subseteq States
    /\ OptionalIn(b.revenueBand, RevenueBands)
    /\ OptionalIn(b.legalStructure, LegalStructures)
    /\ OptionalIn(b.alcoholType, AlcoholTypes)
    /\ OptionalIn(b.alcoholSalesContext, AlcoholSalesContext)
    /\ Range(b.collectsFromOtherStates) \subseteq States
    /\ OptionalIn(b.dataVolumeBand, DataVolumeBands)
    /\ OptionalIn(b.payrollFrequency, PayrollFreq)
    /\ (~b.multiState \/ Len(b.otherStates) > 0)
    /\ (~b.hasRemoteEmployees \/ Len(b.remoteEmployeeStates) > 0)
    /\ (~b.sellsTaxable \/ Len(b.salesStates) > 0)
    /\ (~b.tippedWorkers \/ b.tippedPercentBand # Undef)
    /\ (~b.employsMinors \/ Len(b.minorsAges) > 0)
    /\ (~b.sellsAlcohol \/ b.alcoholSalesContext # Undef)

(***************************************************************************)
(* buildCtx                                                                *)
(***************************************************************************)

\* Fault: an array push in place of Set.prototype.add.
SetAddPush(set, x) ==
    Append(set, x)

\* Set.prototype.add on an insertion-ordered Set, kept as a sequence.
SetAdd(set, x) ==
    IF x \in Range(set) THEN set ELSE Append(set, x)

RECURSIVE AddAllStates(_, _)
AddAllStates(set, arr) ==
    IF arr = <<>> THEN set ELSE AddAllStates(SetAdd(set, normState(Head(arr))), Tail(arr))

statesArrOf(p) ==
    LET s1 == AddAllStates(<<normState(p.state)>>, p.otherStates)
        s2 == AddAllStates(s1, p.remoteEmployeeStates)
        s3 == AddAllStates(s2, p.salesStates)
        s4 == IF p.collectsFromCA THEN SetAdd(s3, CA) ELSE s3
    IN  AddAllStates(s4, p.collectsFromOtherStates)

citiesArrOf(p) ==
    IF normCity(p.city) # EmptyStr THEN <<normCity(p.city)>> ELSE <<>>

\* Fault: the flags are composed with && in place of ||.
requiresFoodAll(p) ==
    p.handlesFood /\ p.onSitePrep /\ p.meatDairy

requiresFoodOf(p) ==
    p.handlesFood \/ p.onSitePrep \/ p.meatDairy

requiresAlcoholOf(p) ==
    p.sellsAlcohol \/ p.alcoholType # Undef

buildCtx(p) ==
    [ raw |-> p,
      state |-> normState(p.state),
      city |-> normCity(p.city),
      statesArr |-> statesArrOf(p),
      citiesArr |-> citiesArrOf(p),
      industry |-> normalizeStr(p.industry),
      industryLc |-> lc(p.industry),
      employeesTotal |-> p.employeesTotal,
      requiresFood |-> requiresFoodOf(p),
      requiresAlcohol |-> requiresAlcoholOf(p),
      alcoholType |-> p.alcoholType,
      alcoholSalesContext |-> p.alcoholSalesContext,
      onSitePrep |-> p.onSitePrep,
      seatingOnPrem |-> p.seatingOnPrem,
      meatDairy |-> p.meatDairy,
      employsMinors |-> p.employsMinors,
      minorsAges |-> p.minorsAges,
      tippedWorkers |-> p.tippedWorkers,
      tippedPercentBand |-> p.tippedPercentBand,
      usesContractors1099 |-> p.usesContractors1099,
      commercialVehicles |-> p.commercialVehicles,
      hasCDLDrivers |-> p.hasCDLDrivers,
      trucksOver10kInterstate |-> p.trucksOver10kInterstate,
      usesForklifts |-> p.usesForklifts,
      hazardousMaterials |-> p.hazardousMaterials,
      collectsCustomerData |-> p.collectsCustomerData,
      handlesPHI |-> p.handlesPHI,
      childrenUnder13 |-> p.childrenUnder13,
      collectsFromCA |-> p.collectsFromCA,
      collectsFromOtherStates |->
          [i \in DOMAIN p.collectsFromOtherStates |-> normState(p.collectsFromOtherStates[i])],
      dataVolumeBand |-> p.dataVolumeBand,
      sellsOrSharesData |-> p.sellsOrSharesData,
      usesBiometrics |-> p.usesBiometrics,
      revenueBand |-> p.revenueBand,
      legalStructure |-> p.legalStructure,
      payrollFrequency |-> p.payrollFrequency,
      numLocations |-> p.numLocations,
      publicFacingSite |-> p.publicFacingSite,
      hasWebsiteOrApp |-> p.hasWebsiteOrApp,
      acceptsCardPayments |-> p.acceptsCardPayments ]

(***************************************************************************)
(* evalConditions                                                          *)
(*                                                                         *)
(* Each block of the function is one step: it is skipped when its key is   *)
(* absent or has another type, it fails (return { ok: false, reasons: [] })*)
(* or it passes and pushes one reason.  A reason is the tuple              *)
(* <<key, text, interpolated values...>>.                                  *)
(***************************************************************************)

Skip ==
    [res |-> "skip"]
Fail ==
    [res |-> "fail"]
Pass(reason) ==
    [res |-> "pass", reason |-> reason]

GenericReason ==
    <<"", "Applies generally (no extra conditions).">>
MeetsReason ==
    <<"", "Meets rule conditions.">>

\* Fault: the lower bound is exclusive.
employeesMinStepExclusive(c, ctx) ==
    LET v == Get(c, "employeesMin") IN
    IF ~isNumber(v) THEN Skip
    ELSE IF ctx.employeesTotal <= v[2] THEN Fail
    ELSE Pass(<<"employeesMin", "Meets minimum employees threshold", ctx.employeesTotal, v[2]>>)

\* 1) employees
employeesMinStep(c, ctx) ==
    LET v == Get(c, "employeesMin") IN
    IF ~isNumber(v) THEN Skip
    ELSE IF ctx.employeesTotal < v[2] THEN Fail
    ELSE Pass(<<"employeesMin", "Meets minimum employees threshold", ctx.employeesTotal, v[2]>>)

employeesMaxStep(c, ctx) ==
    LET v == Get(c, "employeesMax") IN
    IF ~isNumber(v) THEN Skip
    ELSE IF ctx.employeesTotal > v[2] THEN Fail
    ELSE Pass(<<"employeesMax", "Within maximum employees threshold", ctx.employeesTotal, v[2]>>)

\* 2) industry (case-insensitive)
industryStep(c, ctx) ==
    LET v == Get(c, "industry") IN
    IF ~isNonEmptyArray(v) THEN Skip
    ELSE IF ctx.industryLc \notin {lc(v[2][i]) : i \in DOMAIN v[2]} THEN Fail
    ELSE Pass(<<"industry", "Industry matches", ctx.industry>>)

\* Fault: the gate read as an exact boolean equality, like the blocks 6) to 12).
requiresFoodStepSymmetric(c, ctx) ==
    LET v == Get(c, "requiresFood") IN
    IF ~isBoolean(v) THEN Skip
    ELSE IF ctx.requiresFood # v[2] THEN Fail
    ELSE Pass(<<"requiresFood", "Handles food / on-site prep.">>)

\* 3) derived operational flags
requiresFoodStep(c, ctx) ==
    LET v == Get(c, "requiresFood") IN
    IF ~(isBoolean(v) /\ v[2]) THEN Skip
    ELSE IF ~ctx.requiresFood THEN Fail
    ELSE Pass(<<"requiresFood", "Handles food / on-site prep.">>)

requiresAlcoholStep(c, ctx) ==
    LET v == Get(c, "requiresAlcohol") IN
    IF ~(isBoolean(v) /\ v[2]) THEN Skip
    ELSE IF ~ctx.requiresAlcohol THEN Fail
    ELSE Pass(<<"requiresAlcohol", "Sells alcohol.">>)

\* 4) alcohol nuance, tipped share, data volume: !ctx[key] || !cond.includes(ctx[key])
includesStep(c, ctx, key, text) ==
    LET v == Get(c, key) IN
    IF ~isNonEmptyArray(v) THEN Skip
    ELSE IF ctx[key] = Undef \/ ctx[key] = "" \/ ctx[key] \notin Range(v[2]) THEN Fail
    ELSE Pass(<<key, text, ctx[key]>>)

\* 5) location limits
citiesStep(c, ctx) ==
    LET v == Get(c, "cities") IN
    IF ~isNonEmptyArray(v) THEN Skip
    ELSE IF ~hasAny([i \in DOMAIN v[2] |-> normCity(v[2][i])], ctx.citiesArr) THEN Fail
    ELSE Pass(<<"cities", "City explicitly included.">>)

\* 6) minors / tipped
employsMinorsStep(c, ctx) ==
    LET v == Get(c, "employsMinors") IN
    IF ~isBoolean(v) THEN Skip
    ELSE IF ctx.employsMinors # v[2] THEN Fail
    ELSE Pass(<<"employsMinors",
                IF ctx.employsMinors THEN "Employs minors." ELSE "Does not employ minors.">>)

minorsAgesStep(c, ctx) ==
    LET v == Get(c, "minorsAges") IN
    IF ~isNonEmptyArray(v) THEN Skip
    ELSE IF ~hasAny(v[2], ctx.minorsAges) THEN Fail
    ELSE Pass(<<"minorsAges", "Minor age range matches.">>)

tippedWorkersStep(c, ctx) ==
    LET v == Get(c, "tippedWorkers") IN
    IF ~isBoolean(v) THEN Skip
    ELSE IF ctx.tippedWorkers # v[2] THEN Fail
    ELSE Pass(<<"tippedWorkers",
                IF ctx.tippedWorkers THEN "Has tipped workers." ELSE "No tipped workers.">>)

\* 7) transport / safety, 8) privacy / data, 10) facility nuance: the loops over
\* boolean keys, with the word the reason starts with when the condition is true.
TransportKeys ==
    <<"commercialVehicles", "hasCDLDrivers", "trucksOver10kInterstate", "usesForklifts",
      "hazardousMaterials">>
PrivacyKeys ==
    <<"collectsCustomerData", "handlesPHI", "childrenUnder13", "collectsFromCA",
      "sellsOrSharesData", "usesBiometrics">>
FacilityKeys ==
    <<"onSitePrep", "seatingOnPrem", "meatDairy", "publicFacingSite", "hasWebsiteOrApp",
      "acceptsCardPayments">>

\* Fault: the loop checks the flag only when the condition is true, like the gates of 3).
booleanStepGate(c, ctx, key, word) ==
    LET v == Get(c, key) IN
    IF ~(isBoolean(v) /\ v[2]) THEN Skip
    ELSE IF ~ctx[key] THEN Fail
    ELSE Pass(<<key, word>>)

booleanStep(c, ctx, key, word) ==
    LET v == Get(c, key) IN
    IF ~isBoolean(v) THEN Skip
    ELSE IF ctx[key] # v[2] THEN Fail
    ELSE Pass(<<key, IF v[2] THEN word ELSE "No">>)

collectsFromOtherStatesStep(c, ctx) ==
    LET v == Get(c, "collectsFromOtherStates")
        want == IF v[1] = "array" THEN {normState(v[2][i]) : i \in DOMAIN v[2]} ELSE {}
    IN  IF ~isNonEmptyArray(v) THEN Skip
        ELSE IF ~\E i \in DOMAIN ctx.collectsFromOtherStates :
                     ctx.collectsFromOtherStates[i] \in want THEN Fail
        ELSE Pass(<<"collectsFromOtherStates", "Collects data from specified states.">>)

\* 9) structure / payroll: !cond.includes(ctx[key] ?? "")
StructureKeys ==
    <<"revenueBand", "legalStructure", "payrollFrequency", "numLocations">>

\* Fault: the loop pushes no reason when the value is in the allow-list.
structureStepSilent(c, ctx, key) ==
    LET v == Get(c, key) IN
    IF ~isNonEmptyArray(v) THEN Skip
    ELSE IF (IF ctx[key] = Undef THEN "" ELSE ctx[key]) \notin Range(v[2]) THEN Fail
    ELSE Skip

structureStep(c, ctx, key) ==
    LET v == Get(c, key) IN
    IF ~isNonEmptyArray(v) THEN Skip
    ELSE IF (IF ctx[key] = Undef THEN "" ELSE ctx[key]) \notin Range(v[2]) THEN Fail
    ELSE Pass(<<key, "matches.">>)

\* The keys in the order in which the function reaches them.
KeyOrder ==
    <<"employeesMin", "employeesMax", "industry", "requiresFood", "requiresAlcohol",
      "alcoholType", "alcoholSalesContext", "cities", "employsMinors", "minorsAges",
      "tippedWorkers", "tippedPercentBand">>
    \o TransportKeys \o PrivacyKeys
    \o <<"collectsFromOtherStates", "dataVolumeBand">>
    \o StructureKeys \o FacilityKeys

Step(key, c, ctx) ==
    CASE key = "employeesMin" -> employeesMinStep(c, ctx)
      [] key = "employeesMax" -> employeesMaxStep(c, ctx)
      [] key = "industry" -> industryStep(c, ctx)
      [] key = "requiresFood" -> requiresFoodStep(c, ctx)
      [] key = "requiresAlcohol" -> requiresAlcoholStep(c, ctx)
      [] key = "alcoholType" -> includesStep(c, ctx, key, "Alcohol type allowed")
      [] key = "alcoholSalesContext" -> includesStep(c, ctx, key, "Alcohol sales context matches")
      [] key = "cities" -> citiesStep(c, ctx)
      [] key = "employsMinors" -> employsMinorsStep(c, ctx)
      [] key = "minorsAges" -> minorsAgesStep(c, ctx)
      [] key = "tippedWorkers" -> tippedWorkersStep(c, ctx)
      [] key = "tippedPercentBand" -> includesStep(c, ctx, key, "Tipped share matches")
      [] key \in Range(TransportKeys) -> booleanStep(c, ctx, key, "Requires")
      [] key \in Range(PrivacyKeys) -> booleanStep(c, ctx, key, "Has")
      [] key = "collectsFromOtherStates" -> collectsFromOtherStatesStep(c, ctx)
      [] key = "dataVolumeBand" -> includesStep(c, ctx, key, "Data volume band matches")
      [] key \in Range(StructureKeys) -> structureStep(c, ctx, key)
      [] key \in Range(FacilityKeys) -> booleanStep(c, ctx, key, "Has")

\* Fault: a failing block returns the reasons pushed so far instead of [].
RECURSIVE evalFromKeepsReasons(_, _, _, _)
evalFromKeepsReasons(i, reasons, c, ctx) ==
    IF i > Len(KeyOrder)
    THEN [ok |-> TRUE, reasons |-> IF reasons # <<>> THEN reasons ELSE <<MeetsReason>>]
    ELSE LET s == Step(KeyOrder[i], c, ctx) IN
         CASE s.res = "fail" -> [ok |-> FALSE, reasons |-> reasons]
           [] s.res = "pass" -> evalFromKeepsReasons(i + 1, Append(reasons, s.reason), c, ctx)
           [] OTHER -> evalFromKeepsReasons(i + 1, reasons, c, ctx)

\* The blocks from the i-th on, with the reasons pushed so far.
RECURSIVE evalFrom(_, _, _, _)
evalFrom(i, reasons, c, ctx) ==
    IF i > Len(KeyOrder)
    THEN [ok |-> TRUE, reasons |-> IF reasons # <<>> THEN reasons ELSE <<MeetsReason>>]
    ELSE LET s == Step(KeyOrder[i], c, ctx) IN
         CASE s.res = "fail" -> [ok |-> FALSE, reasons |-> <<>>]
           [] s.res = "pass" -> evalFrom(i + 1, Append(reasons, s.reason), c, ctx)
           [] OTHER -> evalFrom(i + 1, reasons, c, ctx)

\* Fault: the early return for a null or empty document is missing.
evalConditionsNoEmptyCase(c, ctx) ==
    evalFrom(1, <<>>, c, ctx)

\* Fault: every boolean member of the document that names a boolean field of the
\* profile is compared with it, whether a block of the function reads it or not.
evalConditionsAllBooleans(c, ctx) ==
    IF Falsy(c) \/ ObjectKeys(c) = {}
    THEN [ok |-> TRUE, reasons |-> <<GenericReason>>]
    ELSE IF \E k \in {"usesContractors1099", "handlesFood", "sellsAlcohol"} :
                isBoolean(Get(c, k)) /\ Get(c, k)[2] # ctx.raw[k]
         THEN [ok |-> FALSE, reasons |-> <<>>]
         ELSE evalFrom(1, <<>>, c, ctx)

evalConditions(c, ctx) ==
    IF Falsy(c) \/ ObjectKeys(c) = {}
    THEN [ok |-> TRUE, reasons |-> <<GenericReason>>]
    ELSE evalFrom(1, <<>>, c, ctx)

(***************************************************************************)
(* computeDueDate and toPublic                                             *)
(***************************************************************************)

\* Days since 1970-01-01 of a civil date, and back (what Date.UTC and the getUTC*
\* accessors compute).
DaysFromCivil(date) ==
    LET y == IF date[2] <= 2 THEN date[1] - 1 ELSE date[1]
        era == y \div 400
        yoe == y - era * 400
        mp == IF date[2] > 2 THEN date[2] - 3 ELSE date[2] + 9
        doy == (153 * mp + 2) \div 5 + date[3] - 1
        doe == yoe * 365 + yoe \div 4 - yoe \div 100 + doy
    IN  era * 146097 + doe - 719468

CivilFromDays(days) ==
    LET z == days + 719468
        era == z \div 146097
        doe == z - era * 146097
        yoe == (doe - doe \div 1460 + doe \div 36524 - doe \div 146096) \div 365
        doy == doe - (365 * yoe + yoe \div 4 - yoe \div 100)
        mp == (5 * doy + 2) \div 153
        d == doy - (153 * mp + 2) \div 5 + 1
        m == IF mp < 10 THEN mp + 3 ELSE mp - 9
        y == yoe + era * 400
    IN  <<IF m <= 2 THEN y + 1 ELSE y, m, d>>

\* Number(v ?? 0): [finite, n]; NaN is not finite.
NumericStrings ==
    ("30" :> 30) @@ ("10" :> 10) @@ ("" :> 0)
ToNumber(v) ==
    CASE v[1] \in {"null", "undefined"} -> [finite |-> TRUE, n |-> 0]
      [] v[1] = "number" -> [finite |-> TRUE, n |-> v[2]]
      [] v[1] = "boolean" -> [finite |-> TRUE, n |-> IF v[2] THEN 1 ELSE 0]
      [] v[1] = "string" /\ v[2] \in DOMAIN NumericStrings ->
             [finite |-> TRUE, n |-> NumericStrings[v[2]]]
      [] OTHER -> [finite |-> FALSE, n |-> 0]

\* The profile fields by the type of their value.
TextFields ==
    {"businessName", "industry", "state", "city"}
ArrayFields ==
    {"otherStates", "remoteEmployeeStates", "minorsAges", "salesStates",
     "collectsFromOtherStates"}
OptionalEnumFields ==
    {"numLocations", "tippedPercentBand", "revenueBand", "legalStructure", "alcoholType",
     "alcoholSalesContext", "dataVolumeBand", "payrollFrequency"}

\* !payload[name], for a name that is a field of the profile.
FalsyField(p, name) ==
    CASE name \in DateFields -> p[name] = NoDate
      [] name \in OptionalEnumFields -> p[name] = Undef
      [] name \in TextFields \union ArrayFields -> FALSE
      [] name = "employeesTotal" -> p[name] = 0
      [] OTHER -> ~p[name]

\* Names that payload[name] finds on Object.prototype when the profile has no such
\* field: the value is a function, which is truthy and no date.
InheritedNames ==
    {"constructor", "toString", "valueOf", "hasOwnProperty"}

\* d.toISOString().slice(0, 10) of the date `days` days after 1970-01-01: <<y, m, d>>
\* stands for "YYYY-MM-DD". A year outside 0000..9999 is written with a sign and six
\* digits, and the slice keeps the sign, the year, a hyphen and the month.
isoDate(days) ==
    LET date == CivilFromDays(days) IN
    IF date[1] \in 0 .. 9999 THEN date
    ELSE <<IF date[1] < 0 THEN "-" ELSE "+",
           IF date[1] < 0 THEN 0 - date[1] ELSE date[1], date[2], "">>

\* [threw, date]: the due date (NoDate for null), or the RangeError that toISOString
\* raises on an invalid Date when the value found under the name is no date.
computeDueDate(c, p) ==
    LET dueFrom == Get(c, "dueFrom")
        dueInDays == ToNumber(Get(c, "dueInDays"))
    IN  IF Falsy(dueFrom) THEN [threw |-> FALSE, date |-> NoDate]
        ELSE IF dueFrom[1] = "string" /\ dueFrom[2] \notin DOMAIN p
                  /\ dueFrom[2] \in InheritedNames
             THEN [threw |-> TRUE, date |-> NoDate]
        ELSE IF ~(dueFrom[1] = "string" /\ dueFrom[2] \in DOMAIN p)
             THEN [threw |-> FALSE, date |-> NoDate]
        ELSE IF FalsyField(p, dueFrom[2]) THEN [threw |-> FALSE, date |-> NoDate]
        ELSE IF dueFrom[2] \notin DateFields THEN [threw |-> TRUE, date |-> NoDate]
        ELSE IF dueInDays.finite /\ dueInDays.n # 0
             THEN [threw |-> FALSE,
                   date |-> isoDate(DaysFromCivil(p[dueFrom[2]]) + dueInDays.n)]
             ELSE [threw |-> FALSE, date |-> isoDate(DaysFromCivil(p[dueFrom[2]]))]

\* x ?? ""
OrEmpty(v) ==
    IF v[1] \in {"null", "undefined"} THEN JStr("") ELSE v

\* The public shape of a matched row (summary and source, copied through like id
\* and title, are left out of the rows).
toPublic(r, reasons, p) ==
    LET c == IF Falsy(r.conditions) THEN EmptyDoc ELSE r.conditions IN
    [ id |-> r.id,
      title |-> r.title,
      level |-> r.level,
      jurisdiction |-> [state |-> r.jurisdiction_state, city |-> r.jurisdiction_city],
      appliesBecause |-> reasons,
      action |-> OrEmpty(Get(c, "action")),
      owner |-> OrEmpty(Get(c, "owner")),
      effort |-> OrEmpty(Get(c, "effort")),
      dueDate |-> computeDueDate(c, p).date ]

(***************************************************************************)
(* matchRules, after the candidate rows are known (match.ts 389-420)       *)
(***************************************************************************)

\* for (const r of rows) { if (ok) matched.push({ row: r, reasons }) }
RECURSIVE matchedOf(_, _)
matchedOf(rows, ctx) ==
    IF rows = <<>> THEN <<>>
    ELSE LET e == evalConditions(Head(rows).conditions, ctx) IN
         (IF e.ok THEN <<[row |-> Head(rows), reasons |-> e.reasons]>> ELSE <<>>)
             \o matchedOf(Tail(rows), ctx)

\* Fault: the group is built back to front (unshift in place of push).
groupOfReversed(matched, lvl, ctx) ==
    LET sel == SelectSeq(matched, LAMBDA m : m.row.level = lvl) IN
    [i \in DOMAIN sel |-> toPublic(sel[Len(sel) + 1 - i].row, sel[Len(sel) + 1 - i].reasons,
                                   ctx.raw)]

groupOf(matched, lvl, ctx) ==
    LET sel == SelectSeq(matched, LAMBDA m : m.row.level = lvl) IN
    [i \in DOMAIN sel |-> toPublic(sel[i].row, sel[i].reasons, ctx.raw)]

\* A matched row whose due date cannot be computed: toPublic throws.
throwsOn(matched, ctx) ==
    \E i \in DOMAIN matched :
        computeDueDate(IF Falsy(matched[i].row.conditions) THEN EmptyDoc
                       ELSE matched[i].row.conditions, ctx.raw).threw

\* const grouped = { federal: [], state: [], city: [], industry: [] }, filled by level.
groupedOf(matched, ctx) ==
    [ federal |-> groupOf(matched, "federal", ctx),
      state |-> groupOf(matched, "state", ctx),
      city |-> groupOf(matched, "city", ctx),
      industry |-> <<>> ]

\* Fault: the sum leaves the city group out.
withCountNoCity(grouped) ==
    [ threw |-> FALSE,
      grouped |-> grouped,
      count |-> Len(grouped.federal) + Len(grouped.state) + Len(grouped.industry) ]

\* const count = grouped.federal.length + ... ; return { grouped, count }
withCount(grouped) ==
    [ threw |-> FALSE,
      grouped |-> grouped,
      count |-> Len(grouped.federal) + Len(grouped.state) + Len(grouped.city)
                + Len(grouped.industry) ]

groupAndCount(matched, ctx) ==
    IF throwsOn(matched, ctx) THEN [threw |-> TRUE] ELSE withCount(groupedOf(matched, ctx))

\* [threw, grouped, count]: what matchRules returns, or the exception leaving it.
evaluateAndGroup(rows, ctx) ==
    groupAndCount(matchedOf(rows, ctx), ctx)

(***************************************************************************)
(* Inputs of the evaluator harness                                         *)
(***************************************************************************)

Levels ==
    {"federal", "state", "city"}

Lab ==
    <<"L", "a", "b">>
LA ==
    <<"L", "A">>
NYC ==
    <<"N", "Y", "C">>

\* Validated profiles (each satisfies SchemaValid).
PlainForm ==
    Form([businessName |-> "Shop", industry |-> Lab, state |-> NY, city |-> NYC,
          employeesTotal |-> 0])
BottleShopForm ==
    Form([businessName |-> "Bottle Shop", industry |-> Lab, state |-> CA, city |-> LA,
          employeesTotal |-> 3, sellsAlcohol |-> TRUE, alcoholSalesContext |-> "off-premise"])
MultiStateForm ==
    Form([businessName |-> "Cross-State Retailer", industry |-> <<"C", "a", "b">>,
          state |-> NY, city |-> NYC, employeesTotal |-> 10, sellsTaxable |-> TRUE,
          salesStates |-> <<CA, NY>>, collectsFromCA |-> TRUE])
FullForm ==
    Form([businessName |-> "Everything", industry |-> <<" ", "L", "A", "B">>,
          state |-> CA, city |-> <<" ", "l", "a", " ">>, employeesTotal |-> 10,
          numLocations |-> "2-4", multiState |-> TRUE, otherStates |-> <<OH>>,
          hasRemoteEmployees |-> TRUE, remoteEmployeeStates |-> <<NY, OH>>,
          handlesFood |-> TRUE, sellsAlcohol |-> TRUE, hazardousMaterials |-> TRUE,
          commercialVehicles |-> TRUE, hasCDLDrivers |-> TRUE,
          acceptsCardPayments |-> TRUE, collectsCustomerData |-> TRUE,
          tippedWorkers |-> TRUE, tippedPercentBand |-> ">50%",
          employsMinors |-> TRUE, minorsAges |-> <<"<16", "16-17">>,
          usesContractors1099 |-> TRUE, sellsTaxable |-> TRUE, salesStates |-> <<CA>>,
          revenueBand |-> "1M-5M", legalStructure |-> "LLC",
          onSitePrep |-> TRUE, seatingOnPrem |-> TRUE, meatDairy |-> TRUE,
          alcoholType |-> "wine", alcoholSalesContext |-> "both",
          handlesPHI |-> TRUE, childrenUnder13 |-> TRUE, collectsFromCA |-> TRUE,
          collectsFromOtherStates |-> <<OH>>, dataVolumeBand |-> ">=100k",
          sellsOrSharesData |-> TRUE, usesBiometrics |-> TRUE,
          trucksOver10kInterstate |-> TRUE, usesForklifts |-> TRUE,
          publicFacingSite |-> TRUE, hasWebsiteOrApp |-> TRUE,
          payrollFrequency |-> "weekly", firstPayrollDate |-> <<2024, 1, 1>>])
PrepOnlyForm ==
    Form([businessName |-> "Kitchen", industry |-> Lab, state |-> OH, city |-> <<"O", "H">>,
          employeesTotal |-> 3, onSitePrep |-> TRUE, alcoholType |-> "beer",
          tippedWorkers |-> TRUE, tippedPercentBand |-> "<20%", legalStructure |-> "Corp",
          firstPayrollDate |-> <<2024, 3, 1>>])
MeatOnlyForm ==
    Form([businessName |-> "Butcher", industry |-> <<"C", "a", "b">>, state |-> NY,
          city |-> <<"n", "y", "c">>, employeesTotal |-> 4, meatDairy |-> TRUE,
          employsMinors |-> TRUE, minorsAges |-> <<"16-17">>,
          collectsFromOtherStates |-> <<CA>>, dataVolumeBand |-> "<50k",
          revenueBand |-> "<100k", payrollFrequency |-> "monthly", numLocations |-> "1",
          firstPayrollDate |-> <<9999, 12, 15>>])
FoodOnlyForm ==
    Form([businessName |-> "Grocer", industry |-> Lab, state |-> CA, city |-> LA,
          employeesTotal |-> 11, handlesFood |-> TRUE, seatingOnPrem |-> TRUE,
          hasCDLDrivers |-> TRUE, handlesPHI |-> TRUE, hasWebsiteOrApp |-> TRUE])
BlankCityForm ==
    Form([businessName |-> "Nowhere", industry |-> Lab, state |-> OH, city |-> <<" ">>,
          employeesTotal |-> 2])

EvalPayloads ==
    {PlainForm, BottleShopForm, MultiStateForm, FullForm, PrepOnlyForm, MeatOnlyForm,
     FoodOnlyForm, BlankCityForm}

\* The keys the evaluator tests for a boolean, and the values an entry gives them:
\* both booleans and a string in place of the boolean.
BooleanKeys ==
    {"employsMinors", "tippedWorkers"} \union Range(TransportKeys) \union Range(PrivacyKeys)
        \union Range(FacilityKeys)
GateKeys ==
    {"requiresFood", "requiresAlcohol"}

Entry(k, v) ==
    <<k, v>>

BooleanEntries ==
    {Entry(k, v) : k \in BooleanKeys \union GateKeys,
                   v \in {JBool(TRUE), JBool(FALSE), JStr("true")}}

NumericEntries ==
    {Entry(k, v) : k \in {"employeesMin", "employeesMax"},
                   v \in {JNum(3), JNum(10), JStr("10")}}

\* Allow-lists: arrays, the empty array, and a string in place of the array.
ArrayEntries ==
    {Entry("industry", v) : v \in {JArr(<<<<"l", "a", "b">>>>),
                                    JArr(<<<<"C", "a", "b">>, <<"L", "A", "B", " ">>>>)}}
    \union {Entry("cities", v) : v \in {JArr(<<LA>>), JArr(<<<<"N", "y", "c">>, OH>>)}}
    \union {Entry("collectsFromOtherStates", v) :
                v \in {JArr(<<<<"c", "a">>>>), JArr(<<OH, NY>>)}}
    \union {Entry("alcoholType", v) : v \in {JArr(<<"beer">>), JArr(<<"wine", "spirits">>)}}
    \union {Entry("alcoholSalesContext", v) :
                v \in {JArr(<<"off-premise", "both">>), JArr(<<"on-premise">>)}}
    \union {Entry("minorsAges", v) : v \in {JArr(<<"16-17">>), JArr(<<"<16">>)}}
    \union {Entry("tippedPercentBand", v) :
                v \in {JArr(<<">50%">>), JArr(<<"<20%", "20-50%">>)}}
    \union {Entry("dataVolumeBand", v) : v \in {JArr(<<">=100k">>), JArr(<<"<50k">>)}}
    \union {Entry("revenueBand", v) : v \in {JArr(<<"1M-5M", ">=5M">>), JArr(<<"", "<100k">>)}}
    \union {Entry("legalStructure", v) : v \in {JArr(<<"LLC">>), JArr(<<"", "Corp">>)}}
    \union {Entry("payrollFrequency", v) : v \in {JArr(<<"weekly">>), JArr(<<"", "monthly">>)}}
    \union {Entry("numLocations", v) : v \in {JArr(<<"2-4", "5+">>), JArr(<<"", "1">>)}}
    \union {Entry(k, v) : k \in {"industry", "cities", "collectsFromOtherStates",
                                   "alcoholType", "alcoholSalesContext", "minorsAges",
                                   "tippedPercentBand", "dataVolumeBand"}
                                  \union Range(StructureKeys),
                          v \in {JArr(<<>>), JStr("any")}}

\* Keys that no block of evalConditions reads.
OtherEntries ==
    { Entry("action", JStr("File the form")), Entry("owner", JStr("HR")),
      Entry("effort", JStr("low")), Entry("dueFrom", JStr("firstPayrollDate")),
      Entry("dueFrom", JStr("leaseDate")), Entry("dueFrom", JStr("constructor")),
      Entry("dueFrom", JStr("industry")),
      Entry("dueInDays", JNum(30)), Entry("dueInDays", JNum(0)), Entry("dueInDays", JNum(-1)),
      Entry("usesContractors1099", JBool(TRUE)),
      Entry("handlesFood", JBool(TRUE)), Entry("sellsAlcohol", JBool(FALSE)) }

AllEntries ==
    BooleanEntries \union NumericEntries \union ArrayEntries \union OtherEntries

\* The entries that documents of several keys are combined from: one or two of
\* each kind, spread over the blocks of evalConditions.
CoreEntries ==
    { Entry("employeesMin", JNum(3)), Entry("employeesMax", JNum(3)),
      Entry("industry", JArr(<<<<"l", "a", "b">>>>)), Entry("industry", JStr("any")),
      Entry("requiresFood", JBool(TRUE)), Entry("requiresFood", JBool(FALSE)),
      Entry("requiresAlcohol", JBool(TRUE)),
      Entry("alcoholSalesContext", JArr(<<"off-premise", "both">>)),
      Entry("employsMinors", JBool(FALSE)), Entry("commercialVehicles", JBool(TRUE)),
      Entry("revenueBand", JArr(<<"", "<100k">>)), Entry("onSitePrep", JBool(TRUE)),
      Entry("action", JStr("File the form")),
      Entry("dueFrom", JStr("firstPayrollDate")) }

\* The largest number of keys of a condition document.
MaxKeys ==
    2

DocOf(entries) ==
    JObj([key \in {e[1] : e \in entries} |-> (CHOOSE e \in entries : e[1] = key)[2]])

DistinctKeys(entries) ==
    \A e1, e2 \in entries : e1[1] = e2[1] => e1 = e2

CoreSets ==
    {S \in SUBSET CoreEntries : Cardinality(S) < MaxKeys /\ DistinctKeys(S)}

\* null, {} and the documents of at most MaxKeys entries, at most one of them
\* outside CoreEntries.
EvalDocs ==
    {JNull, EmptyDoc}
    \union UNION {{DocOf(S \union {e}) : e \in {x \in AllEntries : \A c \in S : c[1] # x[1]}} :
                     S \in CoreSets}

(***************************************************************************)
(* The rules table, the candidate query and the seeding script             *)
(*                                                                         *)
(* A title is the position of the rule's title in the collation order of   *)
(* the database: ORDER BY title compares these numbers.                    *)
(***************************************************************************)

Rule(id, title, lvl, state, city, conds) ==
    [id |-> id, title |-> title, level |-> lvl, state |-> state, city |-> city,
     conditions |-> conds]

InitialCatalog ==
    { Rule("fed-poster", 1, "federal", NullStr, NullStr, EmptyDoc),
      Rule("fed-large", 2, "federal", NullStr, NullStr,
           DocOf({Entry("employeesMin", JNum(10)), Entry("action", JStr("File the form")),
                Entry("dueFrom", JStr("firstPayrollDate")), Entry("dueInDays", JNum(30))})),
      Rule("ca-alcohol", 1, "state", CA, NullStr,
           DocOf({Entry("requiresAlcohol", JBool(TRUE)),
                Entry("alcoholSalesContext", JArr(<<"off-premise", "both">>))})),
      Rule("ca-notice", 2, "state", CA, NullStr, JNull),
      Rule("ny-notice", 2, "state", NY, NullStr, EmptyDoc),
      Rule("ca-headcount", 3, "state", CA, NullStr, DocOf({Entry("employeesMin", JStr("10"))})),
      Rule("oh-notice", 1, "state", OH, NullStr, EmptyDoc),
      Rule("la-food", 1, "city", CA, LA, DocOf({Entry("requiresFood", JBool(TRUE))})),
      Rule("la-permit", 2, "city", CA, LA, EmptyDoc),
      Rule("nyc-permit", 1, "city", NY, NYC, EmptyDoc) }

\* The rule files the seeding script is run with.
SeedFiles ==
    { { Rule("ca-alcohol", 1, "state", CA, NullStr, DocOf({Entry("requiresAlcohol", JBool(TRUE))})),
        Rule("ca-welcome", 0, "state", CA, NullStr, EmptyDoc),
        Rule("fed-large", 2, "federal", NullStr, NullStr, DocOf({Entry("employeesMin", JNum(3))})) } }

\* INSERT ... ON CONFLICT (id) DO UPDATE, for every rule of the file, in one transaction.
Upsert(table, file) ==
    {r \in table : \A f \in file : f.id # r.id} \union file

\* CASE level WHEN 'federal' THEN 1 WHEN 'state' THEN 2 ELSE 3 END
LevelRank(lvl) ==
    CASE lvl = "federal" -> 1 [] lvl = "state" -> 2 [] OTHER -> 3

\* SQL LOWER(city); NULL stays NULL.
SqlLower(s) ==
    IF s = NullStr THEN NullStr ELSE toLowerCase(s)

\* Fault: the city is compared without LOWER.
IsCandidateCaseSensitive(r, states, cities) ==
    \/ r.level = "federal"
    \/ r.level = "state" /\ r.state # NullStr /\ r.state \in Range(states)
    \/ /\ r.level = "city"
       /\ r.state # NullStr /\ r.state \in Range(states)
       /\ r.city # NullStr /\ r.city \in Range(cities)

\* The WHERE clause of the candidate query.
IsCandidate(r, states, cities) ==
    \/ r.level = "federal"
    \/ r.level = "state" /\ r.state # NullStr /\ r.state \in Range(states)
    \/ /\ r.level = "city"
       /\ r.state # NullStr /\ r.state \in Range(states)
       /\ r.city # NullStr /\ SqlLower(r.city) \in Range(cities)

RowOf(r) ==
    [id |-> r.id, title |-> r.title, level |-> r.level,
     jurisdiction_state |-> r.state, jurisdiction_city |-> r.city,
     conditions |-> r.conditions]

OrderedBefore(a, b) ==
    \/ LevelRank(a.level) < LevelRank(b.level)
    \/ LevelRank(a.level) = LevelRank(b.level) /\ a.title < b.title

\* The orders ORDER BY allows for a set of rows: rows that tie on (level, title)
\* come in either order.
RECURSIVE Orders(_)
Orders(rows) ==
    IF rows = {} THEN {<<>>}
    ELSE UNION {{<<x>> \o rest : rest \in Orders(rows \ {x})} :
                 x \in {y \in rows : \A z \in rows : ~OrderedBefore(z, y)}}

\* The results pool.query may return for the candidate query.
Candidates(table, states, cities) ==
    Orders({RowOf(r) : r \in {x \in table : IsCandidate(x, states, cities)}})

(***************************************************************************)
(* The candidate cache                                                     *)
(***************************************************************************)

TTL ==
    60000

\* Fault: the key leaves the cities out.
cacheKeyStatesOnly(states, cities) ==
    join(sort(states), ",")

\* Fault: the arrays are joined in the order buildCtx produced them (no sort).
cacheKeyUnsorted(states, cities) ==
    join(states, ",") \o <<"|">> \o join(cities, ",")

cacheKey(states, cities) ==
    join(sort(states), ",") \o <<"|">> \o join(sort(cities), ",")

\* Fault: the expiry comparison is inverted.
cacheLookupInverted(cache, key, now) ==
    IF key \in DOMAIN cache /\ cache[key].exp < now
    THEN [hit |-> TRUE, rows |-> cache[key].rows]
    ELSE [hit |-> FALSE, rows |-> <<>>]

\* const hit = jurCache.get(key); if (hit && hit.exp > now) rows = hit.rows
cacheLookup(cache, key, now) ==
    IF key \in DOMAIN cache /\ cache[key].exp > now
    THEN [hit |-> TRUE, rows |-> cache[key].rows]
    ELSE [hit |-> FALSE, rows |-> <<>>]

\* Fault: an entry that is present is kept (set only when absent).
cacheSetIfAbsent(cache, key, rows, now) ==
    cache @@ (key :> [rows |-> rows, exp |-> now + TTL])

\* Fault: the entry is merged with the one it replaces, keeping the later expiry.
cacheSetKeepsLaterExpiry(cache, key, rows, now) ==
    (key :> [rows |-> rows,
             exp |-> IF key \in DOMAIN cache /\ cache[key].exp > now + TTL
                     THEN cache[key].exp ELSE now + TTL]) @@ cache

\* Fault: the write replaces the whole map by the one entry.
cacheSetAlone(cache, key, rows, now) ==
    key :> [rows |-> rows, exp |-> now + TTL]

\* jurCache.set(key, { rows, exp: now + 60_000 })
cacheSet(cache, key, rows, now) ==
    (key :> [rows |-> rows, exp |-> now + TTL]) @@ cache

(***************************************************************************)
(* POST /v1/check and matchRules as steps of a request                     *)
(*                                                                         *)
(* A request runs from its arrival to the await of pool.query, or to its   *)
(* end when the body is rejected or the cache answers; the database then   *)
(* executes the query; the continuation after the await runs to the end.   *)
(* Between these steps other requests, the clock and the seeding script    *)
(* take theirs.                                                            *)
(***************************************************************************)

\* The number of requests of a run.
NumRequests ==
    2
Requests ==
    1 .. NumRequests

\* The instants at which the model reads the clock.
Timeline ==
    {0, TTL - 1, TTL}

LaKitchenForm ==
    Form([businessName |-> "Kitchen LA", industry |-> Lab, state |-> CA,
          city |-> <<" ", "l", "a", " ">>, employeesTotal |-> 12, handlesFood |-> TRUE,
          firstPayrollDate |-> <<2024, 1, 1>>])
TwoStateForm ==
    Form([businessName |-> "Coast to Coast", industry |-> Lab, state |-> CA, city |-> NYC,
          employeesTotal |-> 3, multiState |-> TRUE, otherStates |-> <<NY>>,
          onSitePrep |-> TRUE, alcoholType |-> "beer"])
SanDiegoForm ==
    Form([businessName |-> "Deli SD", industry |-> Lab, state |-> CA,
          city |-> <<"S", "D">>, employeesTotal |-> 3, meatDairy |-> TRUE])
IncompleteBody ==
    Form([industry |-> Lab])

\* Every field is well-typed, the refinement on sellsAlcohol fails.
NoContextBody ==
    Form([businessName |-> "Bar", industry |-> Lab, state |-> CA, city |-> LA,
          employeesTotal |-> 3, sellsAlcohol |-> TRUE])

RequestBodies ==
    {BottleShopForm, LaKitchenForm, SanDiegoForm, MultiStateForm, TwoStateForm,
     IncompleteBody, NoContextBody}

\* What the lookup of a key finds in the cache at an instant.
foundIn(cache, key, now) ==
    IF key \notin DOMAIN cache THEN "none"
    ELSE IF cache[key].exp > now THEN "fresh" ELSE "expired"

IdleRequest ==
    [pc |-> "idle"]
NoReply ==
    [state |-> "none"]
NoResult ==
    [none |-> TRUE]

\* const key = cacheKey(ctx.statesArr, ctx.citiesArr)
keyOf(body) ==
    cacheKey(buildCtx(body).statesArr, buildCtx(body).citiesArr)

\* The handler's answer to what matchRules returned or threw: 200 with the result,
\* or 500 from the catch block.
statusOf(res) ==
    IF res.threw THEN 500 ELSE 200
outOf(res) ==
    IF res.threw THEN NoResult ELSE res

\* A request answered without awaiting: by the cache.
servedFromCache(body, key, now, rows, res, table, from) ==
    [pc |-> "done", body |-> body, key |-> key, now |-> now, hit |-> TRUE, queries |-> 0,
     reply |-> NoReply, rows |-> rows, status |-> statusOf(res), out |-> outOf(res),
     found |-> "fresh", arrived |-> table, rowsFrom |-> from]

\* A request answered after its query returned rows.
servedFromQuery(q, rows, res) ==
    [q EXCEPT !.pc = "done", !.rows = rows, !.status = statusOf(res), !.out = outOf(res),
              !.rowsFrom = q.reply.from]

\* Requests are numbered in the order of their arrival.
Arrives(r) ==
    /\ req[r].pc = "idle"
    /\ IF r = 1 THEN TRUE ELSE req[r - 1].pc # "idle"

\* Fault: parse, which throws, in place of safeParse: the catch block answers 500.
RejectByThrowing(r, body) ==
    /\ Arrives(r)
    /\ ~SchemaValid(body)
    /\ req' = [req EXCEPT ![r] =
                  [pc |-> "done", body |-> body, key |-> <<>>, now |-> clock, hit |-> FALSE,
                   queries |-> 0, reply |-> NoReply, rows |-> <<>>, status |-> 500,
                   out |-> NoResult, found |-> "none", arrived |-> catalog, rowsFrom |-> {}]]
    /\ UNCHANGED <<catalog, jurCache, clock, fetchedFrom, evalVars>>

\* safeParse fails: 400, matchRules is not called.
Reject(r, body) ==
    /\ Arrives(r)
    /\ ~SchemaValid(body)
    /\ req' = [req EXCEPT ![r] =
                  [pc |-> "done", body |-> body, key |-> <<>>, now |-> clock, hit |-> FALSE,
                   queries |-> 0, reply |-> NoReply, rows |-> <<>>, status |-> 400,
                   out |-> NoResult, found |-> "none", arrived |-> catalog, rowsFrom |-> {}]]
    /\ UNCHANGED <<catalog, jurCache, clock, fetchedFrom, evalVars>>

\* The cache answers: matchRules runs to its end without awaiting.
ServeFromCache(r, body) ==
    /\ Arrives(r)
    /\ SchemaValid(body)
    /\ cacheLookup(jurCache, keyOf(body), clock).hit
    /\ req' = [req EXCEPT ![r] =
                  servedFromCache(body, keyOf(body), clock,
                                  cacheLookup(jurCache, keyOf(body), clock).rows,
                                  evaluateAndGroup(cacheLookup(jurCache, keyOf(body), clock).rows,
                                                   buildCtx(body)),
                                  catalog, fetchedFrom[keyOf(body)].from)]
    /\ UNCHANGED <<catalog, jurCache, clock, fetchedFrom, evalVars>>

\* No entry, or an expired one: the query is sent and the request awaits it.
StartQuery(r, body) ==
    /\ Arrives(r)
    /\ SchemaValid(body)
    /\ ~cacheLookup(jurCache, keyOf(body), clock).hit
    /\ req' = [req EXCEPT ![r] =
                         [pc |-> "awaiting", body |-> body, key |-> keyOf(body), now |-> clock,
                          hit |-> FALSE, queries |-> 1, reply |-> NoReply, rows |-> <<>>,
                          status |-> 0, out |-> NoResult,
                          found |-> foundIn(jurCache, keyOf(body), clock),
                          arrived |-> catalog, rowsFrom |-> {}]]
    /\ UNCHANGED <<catalog, jurCache, clock, fetchedFrom, evalVars>>

\* The database executes the candidate query on the table as it is now.
QueryExecutes(r) ==
    /\ req[r].pc = "awaiting"
    /\ req[r].reply = NoReply
    /\ \E rows \in Candidates(catalog, buildCtx(req[r].body).statesArr,
                                buildCtx(req[r].body).citiesArr) :
           req' = [req EXCEPT ![r].reply = [state |-> "ok", rows |-> rows, from |-> catalog]]
    /\ UNCHANGED <<catalog, jurCache, clock, fetchedFrom, evalVars>>

\* The query fails or times out.
QueryFails(r) ==
    /\ req[r].pc = "awaiting"
    /\ req[r].reply = NoReply
    /\ req' = [req EXCEPT ![r].reply = [state |-> "failed"]]
    /\ UNCHANGED <<catalog, jurCache, clock, fetchedFrom, evalVars>>

\* Fault: the expiry is counted from the instant of the write (Date.now() read again
\* after the await).
ResumeStampsAtWrite(r) ==
    /\ req[r].pc = "awaiting"
    /\ req[r].reply.state = "ok"
    /\ jurCache' = cacheSet(jurCache, req[r].key, req[r].reply.rows, clock)
    /\ fetchedFrom' = (req[r].key :> [from |-> req[r].reply.from, by |-> r]) @@ fetchedFrom
    /\ req' = [req EXCEPT ![r] =
                  servedFromQuery(req[r], req[r].reply.rows,
                                  evaluateAndGroup(req[r].reply.rows, buildCtx(req[r].body)))]
    /\ UNCHANGED <<catalog, clock, evalVars>>

\* The continuation after the await: the cache entry is written, the rows are
\* evaluated and grouped, the handler answers.
Resume(r) ==
    /\ req[r].pc = "awaiting"
    /\ req[r].reply.state = "ok"
    /\ jurCache' = cacheSet(jurCache, req[r].key, req[r].reply.rows, req[r].now)
    /\ fetchedFrom' = (req[r].key :> [from |-> req[r].reply.from, by |-> r]) @@ fetchedFrom
    /\ req' = [req EXCEPT ![r] =
                  servedFromQuery(req[r], req[r].reply.rows,
                                  evaluateAndGroup(req[r].reply.rows, buildCtx(req[r].body)))]
    /\ UNCHANGED <<catalog, clock, evalVars>>

\* Fault: a failed query is sent again.
ResumeFailedRetries(r) ==
    /\ req[r].pc = "awaiting"
    /\ req[r].reply.state = "failed"
    /\ req[r].queries < NumRequests
    /\ req' = [req EXCEPT ![r].reply = NoReply, ![r].queries = req[r].queries + 1]
    /\ UNCHANGED <<catalog, jurCache, clock, fetchedFrom, evalVars>>

\* The await rejects: matchRules throws, the handler's catch answers 500.
ResumeFailed(r) ==
    /\ req[r].pc = "awaiting"
    /\ req[r].reply.state = "failed"
    /\ req' = [req EXCEPT ![r].pc = "done", ![r].status = 500]
    /\ UNCHANGED <<catalog, jurCache, clock, fetchedFrom, evalVars>>

\* Time passes.
Tick(t) ==
    /\ t > clock
    /\ clock' = t
    /\ UNCHANGED <<catalog, jurCache, req, fetchedFrom, evalVars>>

\* The seeding script commits a rule file.
Seed(file) ==
    /\ Upsert(catalog, file) # catalog
    /\ catalog' = Upsert(catalog, file)
    /\ UNCHANGED <<jurCache, clock, req, fetchedFrom, evalVars>>

ServerInit ==
    /\ catalog = InitialCatalog
    /\ jurCache = <<>>
    /\ clock = 0
    /\ req = [r \in Requests |-> IdleRequest]
    /\ fetchedFrom = <<>>

EvalIdle ==
    /\ conditions = EmptyDoc
    /\ payload = PlainForm
    /\ level = "federal"
    /\ evalPc = "off"
    /\ evalOut = NoResult
    /\ evalGrouped = NoResult

Init ==
    ServerInit /\ EvalIdle

Next ==
    \/ \E r \in Requests, body \in RequestBodies : Reject(r, body)
    \/ \E r \in Requests, body \in RequestBodies : ServeFromCache(r, body)
    \/ \E r \in Requests, body \in RequestBodies : StartQuery(r, body)
    \/ \E r \in Requests : QueryExecutes(r)
    \/ \E r \in Requests : QueryFails(r)
    \/ \E r \in Requests : Resume(r)
    \/ \E r \in Requests : ResumeFailed(r)
    \/ \E t \in Timeline : Tick(t)
    \/ \E file \in SeedFiles : Seed(file)

Spec ==
    Init /\ [][Next]_vars

(***************************************************************************)
(* The evaluator harness: evalConditions, then the filter-and-group step   *)
(* of matchRules, applied to one rule carrying the document.               *)
(***************************************************************************)

HarnessRow(lvl) ==
    [id |-> "rule", title |-> 1, level |-> lvl,
     jurisdiction_state |-> IF lvl = "federal" THEN NullStr ELSE buildCtx(payload).state,
     jurisdiction_city |-> IF lvl = "city" THEN buildCtx(payload).city ELSE NullStr,
     conditions |-> conditions]

Evaluate ==
    /\ evalPc = "input"
    /\ evalOut' = evalConditions(conditions, buildCtx(payload))
    /\ evalPc' = "evaluated"
    /\ UNCHANGED <<conditions, payload, level, evalGrouped, serverVars>>

Group(lvl) ==
    /\ evalPc = "evaluated"
    /\ level' = lvl
    /\ evalGrouped' = evaluateAndGroup(<<HarnessRow(lvl)>>, buildCtx(payload))
    /\ evalPc' = "grouped"
    /\ UNCHANGED <<conditions, payload, evalOut, serverVars>>

EvalInit ==
    /\ ServerInit
    /\ conditions \in EvalDocs
    /\ payload \in EvalPayloads
    /\ level = "federal"
    /\ evalPc = "input"
    /\ evalOut = NoResult
    /\ evalGrouped = NoResult

EvalNext ==
    \/ Evaluate
    \/ \E lvl \in Levels : Group(lvl)

EvalSpec ==
    EvalInit /\ [][EvalNext]_vars

(***************************************************************************)
(* A burst: more requests than in Spec, all valid and of one footprint,    *)
(* on a table that is not edited and a store that does not fail.           *)
(***************************************************************************)

\* The number of requests of a burst.
NumBurst ==
    3
BurstRequests ==
    1 .. NumBurst

\* Two profiles of the footprint CA | la.
BurstBodies ==
    {BottleShopForm, LaKitchenForm}

BurstInit ==
    /\ catalog = InitialCatalog
    /\ jurCache = <<>>
    /\ clock = 0
    /\ req = [r \in BurstRequests |-> IdleRequest]
    /\ fetchedFrom = <<>>
    /\ EvalIdle

BurstNext ==
    \/ \E r \in BurstRequests, body \in BurstBodies : ServeFromCache(r, body)
    \/ \E r \in BurstRequests, body \in BurstBodies : StartQuery(r, body)
    \/ \E r \in BurstRequests : QueryExecutes(r)
    \/ \E r \in BurstRequests : Resume(r)
    \/ \E t \in Timeline : Tick(t)

BurstSpec ==
    BurstInit /\ [][BurstNext]_vars

(***************************************************************************)
(* Properties                                                              *)
(***************************************************************************)

ctxOf(r) ==
    buildCtx(req[r].body)

\* The keys some block of evalConditions reads.
RecognizedKeys ==
    Range(KeyOrder)

\* The document without one of its keys.
Without(c, k) ==
    JObj([x \in DOMAIN c[2] \ {k} |-> c[2][x]])

\* The results a request with this body gets from an empty cache when the table
\* is `table`: one for each order the query may return the rows in.
ColdResults(table, body) ==
    {outOf(evaluateAndGroup(rows, buildCtx(body))) :
        rows \in Candidates(table, buildCtx(body).statesArr, buildCtx(body).citiesArr)}

\* The jurisdiction of a rule lies within the footprint of a context.
InFootprint(x, ctx) ==
    \/ x.level = "federal"
    \/ x.level = "state" /\ x.state \in Range(ctx.statesArr)
    \/ x.level = "city" /\ x.state \in Range(ctx.statesArr)
                        /\ x.city # NullStr /\ toLowerCase(x.city) \in Range(ctx.citiesArr)

\* C1. Short-circuit: if some recognized key of the document fails against the
\* context, evalConditions returns ok = false with an empty reasons list, whatever
\* reasons the keys before it pushed, and the rule is in no group of the result.
C1_ShortCircuit ==
    (evalPc # "input"
       /\ \E k \in RecognizedKeys : Step(k, conditions, buildCtx(payload)).res = "fail")
    => /\ evalOut = [ok |-> FALSE, reasons |-> <<>>]
       /\ evalPc = "grouped" =>
             /\ ~evalGrouped.threw
             /\ evalGrouped.count = 0
             /\ \A g \in {"federal", "state", "city", "industry"} :
                    evalGrouped.grouped[g] = <<>>

\* A key passes, a later key fails, and the rule has gone through grouping.
C1_Witness ==
    /\ evalPc = "grouped"
    /\ \E i, j \in DOMAIN KeyOrder :
          /\ i < j
          /\ Step(KeyOrder[i], conditions, buildCtx(payload)).res = "pass"
          /\ Step(KeyOrder[j], conditions, buildCtx(payload)).res = "fail"
    /\ evalOut.reasons = <<>>

C3_CacheHit ==
    [][\A r \in Requests :
          (/\ req[r].pc = "idle" /\ req'[r].pc # "idle" /\ req'[r].status # 400
           /\ req'[r].key \in DOMAIN jurCache
           /\ jurCache[req'[r].key].exp > clock)
          => /\ req'[r].pc = "done"
             /\ req'[r].queries = 0
             /\ req'[r].rows = jurCache[req'[r].key].rows
             /\ req'[r].out = outOf(evaluateAndGroup(jurCache[req'[r].key].rows,
                                                     buildCtx(req'[r].body)))
             /\ jurCache' = jurCache]_vars

\* A request is served from the cache one millisecond before the entry expires.
C3_Witness ==
    \E r \in Requests :
        /\ req[r].pc = "done" /\ req[r].hit /\ req[r].queries = 0
        /\ req[r].status = 200
        /\ req[r].now = TTL - 1
        /\ jurCache[req[r].key].exp = TTL

\* C4. Cache miss or expiry: a request that arrives while the cache holds no entry
\* for its key, or one with expiry <= now, sends exactly one query; when the query
\* succeeds the request evaluates the rows it returned and the entry of the key
\* becomes these rows with expiry = the request's now + 60000.
C4_MissOrExpiry ==
    [][\A r \in Requests :
          /\ (/\ req[r].pc = "idle" /\ req'[r].pc # "idle" /\ req'[r].status # 400
              /\ \/ req'[r].key \notin DOMAIN jurCache
                 \/ jurCache[req'[r].key].exp <= clock)
             => /\ req'[r].pc = "awaiting"
                /\ req'[r].queries = 1
                /\ jurCache' = jurCache
          /\ (req[r].pc = "awaiting" /\ req'[r].pc = "awaiting") => req'[r].queries = 1
          /\ (req[r].pc = "awaiting" /\ req'[r].pc = "done" /\ req[r].reply.state = "ok")
             => /\ req'[r].queries = 1
                /\ req'[r].rows = req[r].reply.rows
                /\ req'[r].out = outOf(evaluateAndGroup(req[r].reply.rows, ctxOf(r)))
                /\ DOMAIN jurCache' = DOMAIN jurCache \union {req[r].key}
                /\ jurCache'[req[r].key]
                       = [rows |-> req[r].reply.rows, exp |-> req[r].now + 60000]
                /\ \A k \in DOMAIN jurCache \ {req[r].key} : jurCache'[k] = jurCache[k]]_vars

\* A request found an expired entry, queried, and its rows replaced the entry.
C4_Witness ==
    \E r \in Requests :
        /\ req[r].pc = "done" /\ req[r].found = "expired" /\ req[r].status = 200
        /\ req[r].queries = 1
        /\ jurCache[req[r].key] = [rows |-> req[r].rows, exp |-> req[r].now + 60000]

\* C5, as the specification states it: the result of a request served from the
\* cache is a result the same request would get from an empty cache at that moment.
C5_ColdEqualsWarmNow ==
    \A r \in Requests :
        (req[r].pc = "done" /\ req[r].hit) =>
            req[r].out \in ColdResults(req[r].arrived, req[r].body)

\* C5, amended: the result of a request served from the cache is a result the same
\* request would get from an empty cache and the table as it was when the rows of
\* the entry were read; hence a result of an empty cache at that moment whenever
\* the table has not changed since.
C5_ColdEqualsWarmAtFetch ==
    \A r \in Requests :
        (req[r].pc = "done" /\ req[r].hit) =>
            /\ req[r].out \in ColdResults(req[r].rowsFrom, req[r].body)
            /\ req[r].rowsFrom = req[r].arrived =>
                   req[r].out \in ColdResults(req[r].arrived, req[r].body)

\* A request is served from an entry read before the table was edited.
C5_Witness ==
    \E r \in Requests :
        /\ req[r].pc = "done" /\ req[r].hit
        /\ req[r].rowsFrom # req[r].arrived
        /\ req[r].out \notin ColdResults(req[r].arrived, req[r].body)

\* C6. Concurrent misses: every request that queried returns the result of the rows
\* of its own reply, and the entry of every key is exactly the rows and the expiry
\* written by the request that wrote last, one that missed on this key.
C6_ConcurrentMisses ==
    /\ \A r \in Requests :
          (req[r].pc = "done" /\ ~req[r].hit /\ req[r].reply.state = "ok")
          => /\ req[r].rows = req[r].reply.rows
             /\ req[r].out = outOf(evaluateAndGroup(req[r].reply.rows, ctxOf(r)))
    /\ DOMAIN jurCache = DOMAIN fetchedFrom
    /\ \A key \in DOMAIN jurCache :
          /\ req[fetchedFrom[key].by].pc = "done"
          /\ ~req[fetchedFrom[key].by].hit
          /\ req[fetchedFrom[key].by].key = key
          /\ jurCache[key] = [rows |-> req[fetchedFrom[key].by].reply.rows,
                              exp |-> req[fetchedFrom[key].by].now + 60000]

\* Two requests missed on one key at different instants and got different rows;
\* the one that arrived first wrote last.
C6_Witness ==
    /\ \A r \in Requests : req[r].pc = "done" /\ ~req[r].hit /\ req[r].status = 200
    /\ req[1].key = req[2].key
    /\ req[1].now # req[2].now
    /\ req[1].reply.rows # req[2].reply.rows
    /\ req[2].found = "none"
    /\ fetchedFrom[req[1].key].by = 1

\* C7. Retrieval failure: a request whose query failed ends with status 500 and no
\* result, having sent one query; none of its steps creates or changes a cache
\* entry or touches another request.
C7_RetrievalFailure ==
    [][\A r \in Requests :
          /\ (req[r].pc = "awaiting" /\ req[r].reply.state = "failed" /\ req'[r] # req[r])
             => /\ req'[r].pc = "done"
                /\ req'[r].status = 500
                /\ req'[r].out = NoResult
                /\ req'[r].queries = 1
          /\ (req[r].pc = "awaiting" /\ req'[r] # req[r] /\ req'[r].reply.state = "failed")
             => /\ jurCache' = jurCache
                /\ \A q \in Requests \ {r} : req'[q] = req[q]]_vars

\* One request failed with 500 while another one of the same key was answered.
C7_Witness ==
    \E r, q \in Requests :
        /\ req[r].pc = "done" /\ req[r].reply = [state |-> "failed"]
        /\ req[r].status = 500 /\ req[r].out = NoResult
        /\ req[q].pc = "done" /\ req[q].status = 200 /\ req[q].key = req[r].key

\* The value of a recognized key has another type than the block reading it tests for.
WrongShape(c) ==
    /\ c[1] = "object"
    /\ \E k \in DOMAIN c[2] \intersect RecognizedKeys :
          \/ k \in {"employeesMin", "employeesMax"} /\ c[2][k][1] # "number"
          \/ k \in BooleanKeys \union GateKeys /\ c[2][k][1] # "boolean"
          \/ k \notin {"employeesMin", "employeesMax"} \union BooleanKeys \union GateKeys
                /\ c[2][k][1] # "array"

\* C8, as the specification states it: a document that gives a recognized key a
\* value of the wrong shape is rejected for every profile.
C8_MalformedRejects ==
    (evalPc # "input" /\ WrongShape(conditions)) => ~evalOut.ok

\* C9. Unrecognized keys are ignored: for a non-empty document, the verdict of
\* evalConditions is the verdict for the document without any one of its keys
\* that no block reads (and so for the document with such a key added).
C9_UnrecognizedIgnored ==
    (evalPc # "input" /\ conditions[1] = "object") =>
        \A k \in DOMAIN conditions[2] \ RecognizedKeys :
            evalConditions(Without(conditions, k), buildCtx(payload)).ok = evalOut.ok

\* A document names handlesFood: true next to other keys, the profile handles no
\* food, and the rule matches.
C9_Witness ==
    /\ evalPc # "input"
    /\ conditions[1] = "object"
    /\ "handlesFood" \in DOMAIN conditions[2]
    /\ DOMAIN conditions[2] \intersect RecognizedKeys # {}
    /\ ~payload.handlesFood
    /\ evalOut.ok

\* With the gate `key` true the rule matches exactly when the derived flag is true
\* and the rest of the document matches; with the gate false, exactly when the rest
\* of the document matches.
GateHolds(key, flag) ==
    /\ (Get(conditions, key)[1] = "boolean" /\ Get(conditions, key)[2])
       => (evalOut.ok <=> (flag /\ evalConditions(Without(conditions, key),
                                                  buildCtx(payload)).ok))
    /\ (Get(conditions, key)[1] = "boolean" /\ ~Get(conditions, key)[2])
       => (evalOut.ok <=> evalConditions(Without(conditions, key), buildCtx(payload)).ok)

\* C10. Boolean-gate asymmetry: requiresFood: true (requiresAlcohol: true) rejects
\* exactly the contexts whose derived flag is false; requiresFood: false and
\* requiresAlcohol: false impose nothing.
C10_GateAsymmetry ==
    evalPc # "input" =>
        /\ GateHolds("requiresFood", buildCtx(payload).requiresFood)
        /\ GateHolds("requiresAlcohol", buildCtx(payload).requiresAlcohol)

\* A rule with requiresFood: false matches a profile whose derived flag is true.
C10_Witness ==
    /\ evalPc # "input"
    /\ Get(conditions, "requiresFood")[1] = "boolean"
    /\ ~Get(conditions, "requiresFood")[2]
    /\ buildCtx(payload).requiresFood
    /\ evalOut.ok

\* The flags that a condition compares with the context by exact equality.
ExactBooleanFlags ==
    {"employsMinors", "tippedWorkers", "commercialVehicles", "hasCDLDrivers",
     "trucksOver10kInterstate", "usesForklifts", "hazardousMaterials",
     "collectsCustomerData", "handlesPHI", "childrenUnder13", "collectsFromCA",
     "sellsOrSharesData", "usesBiometrics", "onSitePrep", "seatingOnPrem", "meatDairy",
     "publicFacingSite", "hasWebsiteOrApp", "acceptsCardPayments"}

\* C11. Exact boolean equality: a document that maps one of the flags to a boolean b
\* matches a context only if the flag of the context equals b, for b = true and
\* for b = false.
C11_ExactBooleanEquality ==
    (evalPc # "input" /\ evalOut.ok) =>
        \A k \in ExactBooleanFlags :
            Get(conditions, k)[1] = "boolean" =>
                buildCtx(payload)[k] = Get(conditions, k)[2]

\* A rule that requires a flag to be false matches a profile where it is false, and
\* the reason says so.
C11_Witness ==
    /\ evalPc # "input"
    /\ evalOut.ok
    /\ \E k \in ExactBooleanFlags :
          /\ Get(conditions, k)[1] = "boolean"
          /\ ~Get(conditions, k)[2]
          /\ ~buildCtx(payload)[k]

\* The value the context has for an allow-list key is in the array `arr` of the
\* document: an element of it, or for the array-valued fields an element in common;
\* industry and state codes compared the way the code normalises them.
InAllowList(k, arr, ctx) ==
    CASE k = "industry" -> ctx.industryLc \in {lc(arr[i]) : i \in DOMAIN arr}
      [] k = "minorsAges" -> Range(ctx.minorsAges) \intersect Range(arr) # {}
      [] k = "collectsFromOtherStates" ->
             Range(ctx.collectsFromOtherStates)
                 \intersect {normState(arr[i]) : i \in DOMAIN arr} # {}
      [] OTHER -> ctx[k] # Undef /\ ctx[k] \in Range(arr)

AllowListKeys ==
    {"alcoholType", "alcoholSalesContext", "minorsAges", "tippedPercentBand",
     "dataVolumeBand", "collectsFromOtherStates", "revenueBand", "legalStructure",
     "payrollFrequency", "numLocations", "industry"}

\* C12, as the specification states it: a document that maps an allow-list key to an
\* array matches a context only if the value of the context is in the array; a
\* context without a value is rejected.
C12_AllowListMembership ==
    (evalPc # "input" /\ evalOut.ok) =>
        \A k \in AllowListKeys :
            Get(conditions, k)[1] = "array" =>
                InAllowList(k, Get(conditions, k)[2], buildCtx(payload))

\* The verdict for the document without the key `k`.
RestOk(k) ==
    evalConditions(Without(conditions, k), buildCtx(payload)).ok

\* C13. Inclusive numeric bounds: a document with employeesMin = m matches only if
\* employeesTotal >= m, one with employeesMax = M only if employeesTotal <= M; a
\* headcount equal to a bound passes it (the verdict is that of the other keys).
C13_InclusiveBounds ==
    evalPc # "input" =>
        /\ Get(conditions, "employeesMin")[1] = "number" =>
              /\ evalOut.ok => payload.employeesTotal >= Get(conditions, "employeesMin")[2]
              /\ payload.employeesTotal = Get(conditions, "employeesMin")[2]
                     => evalOut.ok = RestOk("employeesMin")
        /\ Get(conditions, "employeesMax")[1] = "number" =>
              /\ evalOut.ok => payload.employeesTotal <= Get(conditions, "employeesMax")[2]
              /\ payload.employeesTotal = Get(conditions, "employeesMax")[2]
                     => evalOut.ok = RestOk("employeesMax")

\* A headcount of 3 meets employeesMin 3 and employeesMax 3, and the rule matches.
C13_Witness ==
    /\ evalPc # "input"
    /\ conditions = DocOf({Entry("employeesMin", JNum(3)), Entry("employeesMax", JNum(3))})
    /\ payload.employeesTotal = 3
    /\ evalOut.ok

\* The reasons that name the key `k`.
ReasonsFor(k) ==
    {i \in DOMAIN evalOut.reasons : evalOut.reasons[i][1] = k}

Constrains(k, v) ==
    CASE k \in {"employeesMin", "employeesMax"} -> v[1] = "number"
      [] k \in {"requiresFood", "requiresAlcohol"} -> v[1] = "boolean" /\ v[2]
      [] k \in ExactBooleanFlags -> v[1] = "boolean"
      [] OTHER -> v[1] = "array" /\ v[2] # <<>>

ConstrainingKeys ==
    {k \in DOMAIN conditions[2] \intersect RecognizedKeys : Constrains(k, conditions[2][k])}

ReferencedStates(p) ==
    {toUpperCase(p.state)}
        \union {toUpperCase(x) : x \in Range(p.otherStates) \union Range(p.remoteEmployeeStates)
                                     \union Range(p.salesStates)
                                     \union Range(p.collectsFromOtherStates)}
        \union (IF p.collectsFromCA THEN {CA} ELSE {})

\* C15: statesArr built by buildCtx has no duplicates and its elements are exactly
\* the states the profile refers to.
C15_JurisdictionFootprint ==
    LET arr == buildCtx(payload).statesArr IN
    /\ \A i, j \in DOMAIN arr : arr[i] = arr[j] => i = j
    /\ Range(arr) = ReferencedStates(payload)

\* A profile evaluated whose fields name the same state more than once and that
\* collects from CA: five references (and the flag) give a footprint of three states.
C15_Witness ==
    /\ evalPc # "input"
    /\ payload.collectsFromCA
    /\ Len(payload.otherStates) + Len(payload.remoteEmployeeStates)
           + Len(payload.salesStates) + Len(payload.collectsFromOtherStates) = 5
    /\ Len(buildCtx(payload).statesArr) = 3

\* The ids of the rules in the groups of the result of request `r`.
OutIds(r) ==
    UNION {{req[r].out.grouped[g][i].id : i \in DOMAIN req[r].out.grouped[g]} :
              g \in {"federal", "state", "city"}}

\* The document whose one key is a gate set to true.
GateDoc(flag) ==
    DocOf({Entry(flag, JBool(TRUE))})

\* C16: for every request answered with a result, ctx.requiresFood is true exactly when
\* handlesFood, onSitePrep or meatDairy is set in its own profile and
\* ctx.requiresAlcohol exactly when sellsAlcohol is set or an alcoholType is given;
\* a candidate rule conditioned on the gate alone is in the result exactly when the
\* request's own profile composes to true, whatever the earlier requests were and
\* whether or not the candidates came from the cache.
C16_DerivedFlags ==
    \A r \in Requests :
        (req[r].pc = "done" /\ req[r].status = 200) =>
            LET b == req[r].body
                food == b.handlesFood \/ b.onSitePrep \/ b.meatDairy
                alcohol == b.sellsAlcohol \/ b.alcoholType # Undef
            IN  /\ ctxOf(r).requiresFood = food
                /\ ctxOf(r).requiresAlcohol = alcohol
                /\ \A i \in DOMAIN req[r].rows :
                       /\ req[r].rows[i].conditions = GateDoc("requiresFood")
                              => (req[r].rows[i].id \in OutIds(r)) = food
                       /\ req[r].rows[i].conditions = GateDoc("requiresAlcohol")
                              => (req[r].rows[i].id \in OutIds(r)) = alcohol

\* Two requests of one footprint, the second answered from the rows the first
\* cached: the first handles food and gets the food rule, the second does not.
C16_Witness ==
    /\ req[1].pc = "done" /\ req[1].status = 200
    /\ req[2].pc = "done" /\ req[2].status = 200
    /\ req[2].hit
    /\ req[1].key = req[2].key
    /\ ctxOf(1).requiresFood /\ ~ctxOf(2).requiresFood
    /\ "la-food" \in OutIds(1)
    /\ "la-food" \in {req[2].rows[i].id : i \in DOMAIN req[2].rows}
    /\ "la-food" \notin OutIds(2)

\* The rows the database returned to request `r`, as a set.
FetchedRows(r) ==
    {req[r].reply.rows[i] : i \in DOMAIN req[r].reply.rows}

\* C17: the candidate list fetched on a miss is, without repetition, exactly the
\* rules of the table the query ran on that are federal, or of a state of the
\* footprint, or of a city of the footprint in a state of the footprint; every
\* federal rule is in it, and a rule is in it together with every rule of the same
\* level, state and city, whatever their conditions.
C17_CandidateRetrieval ==
    \A r \in Requests :
        (req[r].pc \in {"awaiting", "done"} /\ req[r].reply.state = "ok") =>
            LET table == req[r].reply.from IN
            /\ FetchedRows(r) = {RowOf(x) : x \in {y \in table : InFootprint(y, ctxOf(r))}}
            /\ Len(req[r].reply.rows) = Cardinality(FetchedRows(r))
            /\ \A x \in table : x.level = "federal" => RowOf(x) \in FetchedRows(r)
            /\ \A x, y \in table :
                   (x.level = y.level /\ x.state = y.state /\ x.city = y.city)
                       => (RowOf(x) \in FetchedRows(r)) = (RowOf(y) \in FetchedRows(r))

\* A request answered from a query that returned federal, state and city rules, the
\* city rule through a city stored in another case than the profile's, and among
\* them a rule that the evaluation then rejected.
C17_Witness ==
    \E r \in Requests :
        /\ req[r].pc = "done" /\ req[r].status = 200 /\ req[r].reply.state = "ok"
        /\ {"fed-poster", "ca-notice", "la-permit", "la-food"}
               \subseteq {x.id : x \in FetchedRows(r)}
        /\ "oh-notice" \notin {x.id : x \in FetchedRows(r)}
        /\ "la-food" \notin OutIds(r)

\* The ids of a sequence of rows or of public rules, in order.
IdsOf(seq) ==
    [i \in DOMAIN seq |-> seq[i].id]

\* C18: in every result, each of the groups federal, state and city lists its rules
\* in the order the candidate list has them (it is the candidate list with some rows
\* left out), and its titles are ascending.
C18_OrderingInvariant ==
    \A r \in Requests :
        (req[r].pc = "done" /\ req[r].status = 200) =>
            \A g \in {"federal", "state", "city"} :
                LET grp == req[r].out.grouped[g] IN
                /\ SelectSeq(IdsOf(req[r].rows), LAMBDA id : id \in Range(IdsOf(grp)))
                       = IdsOf(grp)
                /\ \A i, j \in DOMAIN grp : i < j => grp[i].title <= grp[j].title

\* A result whose state group has three rules or more, two of them with the same
\* title, out of a candidate list from which the evaluation rejected a rule.
C18_Witness ==
    \E r \in Requests :
        /\ req[r].pc = "done" /\ req[r].status = 200
        /\ Len(req[r].out.grouped.state) >= 3
        /\ \E i, j \in DOMAIN req[r].out.grouped.state :
               i < j /\ req[r].out.grouped.state[i].title = req[r].out.grouped.state[j].title
        /\ Len(req[r].out.grouped.federal) = 2
        /\ req[r].out.count < Len(req[r].rows)

\* The places (group, position) at which the result of request `r` lists the rule `id`.
PlacesOf(r, id) ==
    UNION {{<<g, i>> : i \in {j \in DOMAIN req[r].out.grouped[g] :
                                  req[r].out.grouped[g][j].id = id}} :
              g \in {"federal", "state", "city", "industry"}}

\* The candidates of request `r` that evalConditions accepts for its context.
Accepted(r, i) ==
    evalConditions(req[r].rows[i].conditions, ctxOf(r)).ok
AcceptedRows(r) ==
    {i \in DOMAIN req[r].rows : Accepted(r, i)}

\* C19: in every result, each candidate that evalConditions accepted is listed exactly
\* once, in the group of its level; a rejected candidate is listed nowhere; count is
\* the sum of the sizes of the groups federal, state and city, and the number of
\* accepted candidates.
C19_AssemblyPartition ==
    \A r \in Requests :
        (req[r].pc = "done" /\ req[r].status = 200) =>
            /\ \A i \in DOMAIN req[r].rows :
                   IF Accepted(r, i)
                   THEN \E n \in DOMAIN req[r].out.grouped[req[r].rows[i].level] :
                            PlacesOf(r, req[r].rows[i].id) = {<<req[r].rows[i].level, n>>}
                   ELSE PlacesOf(r, req[r].rows[i].id) = {}
            /\ req[r].out.count = Len(req[r].out.grouped.federal)
                                      + Len(req[r].out.grouped.state)
                                      + Len(req[r].out.grouped.city)
            /\ req[r].out.count = Cardinality(AcceptedRows(r))

\* A result with rules in each of the three groups, out of a candidate list of which
\* the evaluation rejected two or more.
C19_Witness ==
    \E r \in Requests :
        /\ req[r].pc = "done" /\ req[r].status = 200
        /\ \A g \in {"federal", "state", "city"} : Len(req[r].out.grouped[g]) >= 1
        /\ req[r].out.count >= 4
        /\ Len(req[r].rows) >= req[r].out.count + 2

\* The field the document names as dueFrom ("" when it names none), and the offset
\* it gives (zero when it gives none).
DueFromOf(c) ==
    IF Get(c, "dueFrom")[1] = "string" THEN Get(c, "dueFrom")[2] ELSE ""
DueInDaysOf(c) ==
    IF Get(c, "dueInDays")[1] = "number" THEN Get(c, "dueInDays")[2] ELSE 0

\* The profile holds a date under the name.
HasDate(p, name) ==
    name \in DateFields /\ p[name] # NoDate

\* The profile holds nothing under the name: it has no such field, or the field is
\* a date or an optional choice left out.
HasNoValue(p, name) ==
    \/ name \notin DOMAIN p
    \/ name \in DateFields /\ p[name] = NoDate
    \/ name \in OptionalEnumFields /\ p[name] = Undef

\* The calendar date `n` days after `date`.
PlusDays(date, n) ==
    CivilFromDays(DaysFromCivil(date) + n)

\* C20, as the specification states it: a matched rule whose document names a date
\* the profile holds gets that date plus dueInDays calendar days as its dueDate; a
\* matched rule whose document names no dueFrom, or a field the profile holds
\* nothing under, gets no dueDate and raises no error; a rejected rule gets none.
C20_DueDate ==
    (evalPc = "grouped" /\ conditions[1] = "object"
       /\ Get(conditions, "dueInDays")[1] \in {"number", "undefined"})
    => IF ~evalOut.ok
       THEN ~evalGrouped.threw /\ evalGrouped.grouped[level] = <<>>
       ELSE /\ HasDate(payload, DueFromOf(conditions)) =>
                  /\ ~evalGrouped.threw
                  /\ evalGrouped.grouped[level][1].dueDate
                         = PlusDays(payload[DueFromOf(conditions)], DueInDaysOf(conditions))
            /\ (Get(conditions, "dueFrom") = Undefined
                  \/ (Get(conditions, "dueFrom")[1] = "string"
                        /\ HasNoValue(payload, DueFromOf(conditions)))) =>
                  /\ ~evalGrouped.threw
                  /\ evalGrouped.grouped[level][1].dueDate = NoDate

\* Request `r` was answered with a result, and the rows it evaluated were fetched from
\* the table as it was when the request arrived.
AnsweredOn(r, table) ==
    /\ req[r].pc = "done" /\ req[r].status = 200
    /\ req[r].arrived = table
    /\ req[r].rowsFrom = table

\* C21, as the specification states it: two invocations with the same profile on the
\* same rule catalog return the same groups, reasons and count, whether the rows came
\* from the cache or from the store.
C21_Determinism ==
    \A r1, r2 \in Requests :
        (AnsweredOn(r1, req[r1].arrived) /\ AnsweredOn(r2, req[r1].arrived)
           /\ req[r1].body = req[r2].body)
        => req[r1].out = req[r2].out

\* C22: a request whose body fails validation is answered at once with status 400
\* and no result; it sends no query, neither then nor later, and the step leaves the
\* cache and the other requests as they are.
C22_ValidationGate ==
    [][\A r \in Requests :
          /\ (req[r].pc = "idle" /\ req'[r].pc # "idle" /\ ~SchemaValid(req'[r].body))
             => /\ req'[r].pc = "done"
                /\ req'[r].status = 400
                /\ req'[r].out = NoResult
                /\ req'[r].queries = 0
                /\ req'[r].reply = NoReply
                /\ jurCache' = jurCache
                /\ \A q \in Requests \ {r} : req'[q] = req[q]
          /\ (req[r].pc = "done" /\ req[r].status = 400) => req'[r] = req[r]]_vars

\* A body that fails a refinement only is answered 400 while the cache holds the
\* entry of the footprint the body describes.
C22_Witness ==
    \E r \in Requests :
        /\ req[r].pc = "done" /\ req[r].status = 400 /\ req[r].queries = 0
        /\ req[r].body = NoContextBody
        /\ keyOf(BottleShopForm) \in DOMAIN jurCache

\* C23: the expiry of every cache entry is the start time of the request that wrote
\* it plus 60000 ms, whatever the order in which concurrent misses completed; and a
\* request served from the cache evaluates the rows of the request that wrote the
\* entry, less than 60000 ms after that request started.
C23_StalenessBound ==
    [][/\ \A key \in DOMAIN jurCache :
              jurCache[key].exp = req[fetchedFrom[key].by].now + 60000
       /\ \A r \in DOMAIN req :
              /\ (req[r].pc = "awaiting" /\ req'[r].pc = "done" /\ req[r].reply.state = "ok")
                 => jurCache'[req[r].key]
                        = [rows |-> req[r].reply.rows, exp |-> req[r].now + 60000]
              /\ (req[r].pc = "idle" /\ req'[r].pc = "done" /\ req'[r].hit)
                 => /\ req'[r].now = clock
                    /\ req'[r].rows = req[fetchedFrom[req'[r].key].by].reply.rows
                    /\ clock - req[fetchedFrom[req'[r].key].by].now < 60000]_vars

\* Two misses on one key started at 0 and at 59999 and completed in the opposite
\* order, so that the entry is the first one's; a third request is served from it at
\* 59999.
C23_Witness ==
    /\ \A r \in DOMAIN req : req[r].pc = "done"
    /\ DOMAIN req = 1 .. 3
    /\ ~req[1].hit /\ req[1].now = 0
    /\ ~req[2].hit /\ req[2].now = 59999
    /\ fetchedFrom[req[1].key].by = 1
    /\ jurCache[req[1].key].exp = 60000
    /\ req[3].hit /\ req[3].now = 59999
    /\ req[3].rows = req[1].reply.rows

\* Request `r` has passed validation: matchRules has computed its context and key.
Matching(r) ==
    req[r].pc \in {"awaiting", "done"} /\ req[r].status # 400

\* C24: two validated requests have the same cache key exactly when their footprints
\* have the same set of states and the same set of cities, in whatever order the
\* profiles list the states; and the rows a request is served from the cache are a
\* candidate list of its own footprint, on the table they were fetched from.
C24_CanonicalKey ==
    /\ \A r1, r2 \in Requests :
           (Matching(r1) /\ Matching(r2)) =>
               (req[r1].key = req[r2].key)
                   = (/\ Range(ctxOf(r1).statesArr) = Range(ctxOf(r2).statesArr)
                      /\ Range(ctxOf(r1).citiesArr) = Range(ctxOf(r2).citiesArr))
    /\ \A r \in Requests :
           (req[r].pc = "done" /\ req[r].hit) =>
               req[r].rows \in Candidates(req[r].rowsFrom, ctxOf(r).statesArr,
                                          ctxOf(r).citiesArr)

\* A request is served from the entry written for a profile that lists the same
\* states in another order, and differs from it in other fields.
C24_Witness ==
    /\ req[1].pc = "done" /\ ~req[1].hit /\ req[1].status = 200
    /\ req[2].pc = "done" /\ req[2].hit
    /\ req[1].key = req[2].key
    /\ ctxOf(1).statesArr # ctxOf(2).statesArr
    /\ Range(ctxOf(1).statesArr) = Range(ctxOf(2).statesArr)
    /\ req[2].rows = req[1].rows

\* C25: a step of a request leaves the rules table and the other requests (the rows
\* they hold included) as they are; no cache entry is ever removed; and an entry
\* appears or changes only in the step in which a request whose query succeeded
\* resumes, under that request's key, becoming the rows of its reply with its expiry.
\* Hence hits, failed queries, rejections and the evaluation, due dates and grouping
\* of any request change no entry and no cached row.
C25_SharedStateFrame ==
    [][/\ (\E r \in Requests : req'[r] # req[r]) => catalog' = catalog
       /\ \A r, q \in Requests : (req'[r] # req[r] /\ q # r) => req'[q] = req[q]
       /\ DOMAIN jurCache \subseteq DOMAIN jurCache'
       /\ \A k \in DOMAIN jurCache' :
              (k \notin DOMAIN jurCache \/ jurCache'[k] # jurCache[k]) =>
                  \E r \in Requests :
                      /\ req[r].pc = "awaiting" /\ req[r].reply.state = "ok"
                      /\ req'[r].pc = "done"
                      /\ req[r].key = k
                      /\ jurCache'[k] = [rows |-> req[r].reply.rows,
                                         exp |-> req[r].now + 60000]]_vars

\* Two requests of different footprints have both written their entries; the entry
\* of the first is what it wrote, after the second evaluated and wrote its own.
C25_Witness ==
    /\ req[1].pc = "done" /\ ~req[1].hit /\ req[1].status = 200
    /\ req[2].pc = "done" /\ ~req[2].hit /\ req[2].status = 200
    /\ req[1].key # req[2].key
    /\ fetchedFrom[req[2].key].by = 2
    /\ DOMAIN jurCache = {req[1].key, req[2].key}
    /\ jurCache[req[1].key] = [rows |-> req[1].reply.rows, exp |-> req[1].now + 60000]
    /\ req[2].out.count > 0

====
